---- MODULE Spec2Model ----
(***************************************************************************)
(* Model of datawarehouse/higgstautau.py: the V4 four-vector class, the    *)
(* centrality functions, the detail-label classifier and the two           *)
(* systematics pipelines (bkg_weight_norm, tau_energy_scale) that edit a   *)
(* pandas DataFrame in place.                                              *)
(*                                                                         *)
(* Numbers.  TLC has 32-bit integers and no floats, so a float is a        *)
(* fixed-point integer counting units of 1/Scale (1e-4), one decimal finer *)
(* than the 3 decimals the pipeline rounds to.  The three IEEE specials    *)
(* are sentinel integers (Inf, NInf, NaN) outside the finite range.  Every *)
(* numpy function is computed (series, bisection), none is a table or an   *)
(* identity.  Weights count units of 1e-8, so that the classifier's        *)
(* quantisation int(1e7*w + 0.5) has a digit to round.                     *)
(***************************************************************************)
EXTENDS Integers, Sequences, FiniteSets, TLC

VARIABLES
    data,      \* the DataFrame: [column name -> sequence of row values]
    pre,       \* the DataFrame as it was before the last pipeline call
    data0,     \* the DataFrame as loaded, before the first pipeline call
    raised,    \* exception of the last call: "none" or the exception type
    calls,     \* number of pipeline calls made on data
    factor,    \* the factor of the last pipeline call
    call       \* last call of a pure function: its name, arguments and outcome

vars == <<data, pre, data0, raised, calls, factor, call>>

-----------------------------------------------------------------------------
(* Fixed-point floats *)

Scale == 10^4

\* sentinels of the IEEE specials, above every finite value of the model
Inf == 2 * 10^9
NInf == 0 - Inf
NaN == Inf + 1

IsNaN(x) == x = NaN
IsInf(x) == x = Inf \/ x = NInf
Fin(x) == x > NInf /\ x < Inf

Neg(x) == IF IsNaN(x) THEN NaN ELSE 0 - x

Abs(x) == IF IsNaN(x) THEN NaN ELSE IF x < 0 THEN 0 - x ELSE x

Sign(x) == IF x > 0 THEN 1 ELSE IF x < 0 THEN 0 - 1 ELSE 0

\* int(): truncation toward zero of a / b, b > 0
Trunc(a, b) == IF a >= 0 THEN a \div b ELSE 0 - ((0 - a) \div b)

\* nearest integer to a / b (b > 0), halves away from zero
RoundDiv(a, b) == IF a >= 0 THEN (2 * a + b) \div (2 * b)
                  ELSE 0 - ((2 * (0 - a) + b) \div (2 * b))

\* np.nan_to_num writes -inf as the most negative finite float (-1.8e308) and
\* +inf as the largest.  MaxF stands for the finite floats of that order: it
\* absorbs every ordinary number, and its square or double overflows to inf.
MaxF == Inf - 1

IsHuge(x) == x = MaxF \/ x = 0 - MaxF

SignedInf(s) == IF s > 0 THEN Inf ELSE NInf

Add(a, b) ==
    IF IsNaN(a) \/ IsNaN(b) THEN NaN
    ELSE IF IsInf(a) THEN (IF IsInf(b) /\ a # b THEN NaN ELSE a)
    ELSE IF IsInf(b) THEN b
    ELSE IF IsHuge(a) THEN (IF IsHuge(b) THEN (IF a = b THEN SignedInf(a) ELSE 0) ELSE a)
    ELSE IF IsHuge(b) THEN b
    ELSE a + b

Sub(a, b) == Add(a, Neg(b))

\* x * y of two ordinary numbers >= 0, rounded to the unit; x is split so
\* that no intermediate product leaves 32 bits
MulAbs(x, y) == (x \div Scale) * y + ((x % Scale) * y + Scale \div 2) \div Scale

\* a * b of two ordinary numbers
MulFin(a, b) == Sign(a) * Sign(b) * MulAbs(Abs(a), Abs(b))

Mul(a, b) ==
    IF IsNaN(a) \/ IsNaN(b) THEN NaN
    ELSE IF IsInf(a) \/ IsInf(b)
         THEN (IF a = 0 \/ b = 0 THEN NaN ELSE SignedInf(Sign(a) * Sign(b)))
    ELSE IF a = 0 \/ b = 0 THEN 0
    ELSE IF IsHuge(a) \/ IsHuge(b)
         THEN (IF (Abs(a) > Scale) /\ (Abs(b) > Scale)
               THEN SignedInf(Sign(a) * Sign(b))
               ELSE Sign(a) * Sign(b) * MaxF)
    ELSE MulFin(a, b)

\* x / y of two ordinary numbers, x >= 0 and y > 0, rounded to the unit
DivAbs(x, y) == (x \div y) * Scale + ((x % y) * Scale + y \div 2) \div y

\* a / b of two ordinary numbers, b # 0
DivFin(a, b) == Sign(a) * Sign(b) * DivAbs(Abs(a), Abs(b))

\* numpy true division: x/0 is +-inf, 0/0 is nan, no exception
Div(a, b) ==
    IF IsNaN(a) \/ IsNaN(b) THEN NaN
    ELSE IF IsInf(a) THEN (IF IsInf(b) THEN NaN
                           ELSE SignedInf(Sign(a) * (IF b < 0 THEN 0 - 1 ELSE 1)))
    ELSE IF IsInf(b) THEN 0
    ELSE IF b = 0 THEN (IF a = 0 THEN NaN ELSE SignedInf(a))
    ELSE IF IsHuge(b) THEN (IF IsHuge(a) THEN Sign(a) * Sign(b) * Scale ELSE 0)
    ELSE IF IsHuge(a) THEN (IF Abs(b) < Scale THEN SignedInf(Sign(a) * Sign(b))
                            ELSE Sign(a) * Sign(b) * MaxF)
    ELSE DivFin(a, b)

\* a < b of floats: false when either is nan
Lt(a, b) == ~IsNaN(a) /\ ~IsNaN(b) /\ a < b

Sq(a) == Mul(a, a)

\* floor of the square root of n >= 0, by bisection on [lo, hi]
RECURSIVE IsqrtIn(_, _, _)
IsqrtIn(n, lo, hi) ==
    IF lo >= hi THEN lo
    ELSE LET mid == (lo + hi + 1) \div 2
         IN IF mid * mid <= n THEN IsqrtIn(n, mid, hi)
            ELSE IsqrtIn(n, lo, mid - 1)

Isqrt(n) == IsqrtIn(n, 0, 46340)

\* np.sqrt: nan below zero; sqrt(a/Scale)*Scale = sqrt(a*Scale), with the
\* radicand scaled down by 100 when a*Scale would leave 32 bits
\* the integer nearest to the square root of n, r being its floor
SqrtNearest(n, r) == IF n - r * r > r THEN r + 1 ELSE r

Sqrt(a) ==
    IF IsNaN(a) \/ a < 0 THEN NaN
    ELSE IF a = Inf \/ a = MaxF THEN a
    ELSE IF a <= 200000 THEN SqrtNearest(a * Scale, Isqrt(a * Scale))
    ELSE 10 * Isqrt(a * (Scale \div 100))

\* np.pi in units of 1/Scale
Pi == 31416

HalfPi == Pi \div 2

\* sum of a power series whose terms are term, sgn*term*x2/((n+1)(n+2)), ...:
\* sin and sinh from (x, n = 1), cos from (1, n = 0)
RECURSIVE PowSer(_, _, _, _, _)
PowSer(term, x2, n, acc, sgn) ==
    IF term = 0 THEN acc
    ELSE PowSer(sgn * RoundDiv(MulFin(term, x2), (n + 1) * (n + 2)), x2, n + 2,
                acc + term, sgn)

\* Taylor series of sin and cos on [-pi/4, pi/4]
SinS(t) == PowSer(t, MulFin(t, t), 1, 0, 0 - 1)

CosS(t) == PowSer(Scale, MulFin(t, t), 0, 0, 0 - 1)

\* the angle brought into [-pi, pi)
WrapPi(x) == ((x + Pi) % (2 * Pi)) - Pi

\* sin of y in [-pi, pi), from the series on the nearest multiple of pi/2
SinWrapped(y) ==
    IF y > 3 * (Pi \div 4) THEN SinS(Pi - y)
    ELSE IF y > Pi \div 4 THEN CosS(y - HalfPi)
    ELSE IF y >= 0 - Pi \div 4 THEN SinS(y)
    ELSE IF y >= 0 - 3 * (Pi \div 4) THEN 0 - CosS(y + HalfPi)
    ELSE SinS(0 - Pi - y)

\* np.sin: nan for a non-finite angle
Sin(x) == IF ~Fin(x) THEN NaN ELSE SinWrapped(WrapPi(x))

\* np.cos
Cos(x) == IF ~Fin(x) THEN NaN ELSE Sin(x + HalfPi)

\* sum of the arctan series t - t^3/3 + t^5/5 - ...: term is +-t^n
RECURSIVE AtanSer(_, _, _, _)
AtanSer(term, t2, n, acc) ==
    IF term = 0 THEN acc
    ELSE AtanSer(0 - MulFin(term, t2), t2, n + 2, acc + RoundDiv(term, n))

\* arctan for |t| <= tan(pi/8)
AtanS(t) == AtanSer(t, MulFin(t, t), 1, 0)

\* arctan of z in [0, 1]: arctan z = pi/4 + arctan((z-1)/(z+1)) above tan(pi/8)
AtanUnit(z) ==
    IF z > 4142 THEN Pi \div 4 + AtanS(DivFin(z - Scale, z + Scale))
    ELSE AtanS(z)

\* arctan(a / b) for a, b >= 0 not both 0, in [0, pi/2]
AtanQuadrant(a, b) ==
    IF a <= b THEN AtanUnit(DivFin(a, b)) ELSE HalfPi - AtanUnit(DivFin(b, a))

\* the angle of the quadrant of (x, y) whose angle from the x axis is base
AtanPlace(y, x, base) ==
    IF y < 0 THEN (IF x >= 0 THEN 0 - base ELSE base - Pi)
    ELSE (IF x >= 0 THEN base ELSE Pi - base)

\* arctan(|y| / |x|) when y or x is infinite
AtanInf(y, x) ==
    IF IsInf(y) /\ IsInf(x) THEN Pi \div 4 ELSE IF IsInf(y) THEN HalfPi ELSE 0

\* np.arctan2(y, x), in (-pi, pi]; arctan2(0, 0) = 0 and arctan2(0, x<0) = pi
\* (the model has one zero: numpy's arctan2(-0.0, x<0) = -pi is not modelled)
Atan2(y, x) ==
    IF IsNaN(y) \/ IsNaN(x) THEN NaN
    ELSE IF IsInf(y) \/ IsInf(x) THEN AtanPlace(y, x, AtanInf(y, x))
    ELSE IF x = 0 /\ y = 0 THEN 0
    ELSE AtanPlace(y, x, AtanQuadrant(Abs(y), Abs(x)))

\* largest |x| the series is summed for (x^2 must fit MulFin's second factor)
SinhMax == 4 * Scale

\* np.sinh
Sinh(x) ==
    IF IsNaN(x) THEN NaN
    ELSE IF x > SinhMax THEN Inf
    ELSE IF x < 0 - SinhMax THEN NInf
    ELSE PowSer(x, MulFin(x, x), 1, 0, 1)

\* the x in [lo, hi] with Sinh(x) nearest below z, by bisection (sinh is increasing)
RECURSIVE AsinhIn(_, _, _)
AsinhIn(z, lo, hi) ==
    IF lo >= hi THEN lo
    ELSE LET mid == (lo + hi + 1) \div 2
         IN IF Sinh(mid) <= z THEN AsinhIn(z, mid, hi) ELSE AsinhIn(z, lo, mid - 1)

\* np.arcsinh, the inverse of sinh
\* of x and x + 1, the one whose sinh is nearest to a (x from the bisection)
AsinhNearest(a, x) ==
    IF x < SinhMax /\ Sinh(x + 1) - a < a - Sinh(x) THEN x + 1 ELSE x

Asinh(z) ==
    IF IsNaN(z) THEN NaN
    ELSE IF z = Inf THEN Inf
    ELSE IF z = NInf THEN NInf
    ELSE Sign(z) * AsinhNearest(Abs(z), AsinhIn(Abs(z), 0, SinhMax))

\* sum of the exponential series 1 + y + y^2/2! + ...: term is y^n/n!
RECURSIVE ExpSer(_, _, _, _)
ExpSer(term, y, n, acc) ==
    IF term = 0 THEN acc
    ELSE ExpSer(RoundDiv(MulFin(term, y), n + 1), y, n + 1, acc + term)

\* largest |x| the series is summed for: e^-11 is below half a unit
ExpMax == 11 * Scale

\* np.exp underflows to 0.0 below -745.1332 and overflows to inf above 709.7827
ExpUnderflow == 745 * Scale + 1332

ExpOverflow == 709 * Scale + 7827

\* the smallest positive number of the model, written for every positive
\* float below it: a float that is not 0.0 is never written as 0
Positive(v) == IF v < 1 THEN 1 ELSE v

\* np.exp; e^x = 1 / e^-x for x < 0
Exp(x) ==
    IF IsNaN(x) THEN NaN
    ELSE IF x > ExpOverflow THEN Inf
    ELSE IF x > ExpMax THEN MaxF
    ELSE IF x >= 0 THEN ExpSer(Scale, x, 0, 0)
    ELSE IF x >= 0 - ExpMax THEN Positive(DivFin(Scale, ExpSer(Scale, 0 - x, 0, 0)))
    ELSE IF x >= 0 - ExpUnderflow THEN 1
    ELSE 0

\* Series.round(decimals=3): to a multiple of 10 units, halves to even
Round3(v) ==
    IF ~Fin(v) THEN v
    ELSE LET q == v \div 10
             r == v % 10
         IN IF r < 5 THEN 10 * q
            ELSE IF r > 5 THEN 10 * (q + 1)
            ELSE IF q % 2 = 0 THEN 10 * q ELSE 10 * (q + 1)

-----------------------------------------------------------------------------
(* pandas.DataFrame: a function from the column names present to columns   *)
(* (sequences of equal length, one element per row)                        *)

HasCol(d, c) == c \in DOMAIN d

NRows(d) == Len(d[CHOOSE c \in DOMAIN d : TRUE])

\* data[c] = col: the column is replaced, or created when absent
SetCol(d, c, col) == [x \in (DOMAIN d) \cup {c} |-> IF x = c THEN col ELSE d[x]]

-----------------------------------------------------------------------------
(* Detail labels.  The codes of detail_label_num are integers and the      *)
(* fallback is the string "W"; the model writes every code as a string,    *)
(* a label 0 / 1 as "0" / "1" and a label 'b' / 's' as "b" / "s".          *)

detail_label_num ==
    (57207 :> "0") @@ (4613 :> "1") @@ (8145 :> "2") @@ (4610 :> "3") @@
    (917703 :> "105") @@ (5127399 :> "111") @@ (4435976 :> "112") @@
    (4187604 :> "113") @@ (2407146 :> "114") @@ (1307751 :> "115") @@
    (944596 :> "122") @@ (936590 :> "123") @@ (1093224 :> "124") @@
    (225326 :> "132") @@ (217575 :> "133") @@ (195328 :> "134") @@
    (254338 :> "135") @@ (2268701 :> "300")

\* the table of string codes, under the name line 359 gives it
detail_lable_str ==
    (57207 :> "S0") @@ (4613 :> "S1") @@ (8145 :> "S2") @@ (4610 :> "S3") @@
    (917703 :> "Z05") @@ (5127399 :> "Z11") @@ (4435976 :> "Z12") @@
    (4187604 :> "Z13") @@ (2407146 :> "Z14") @@ (1307751 :> "Z15") @@
    (944596 :> "Z22") @@ (936590 :> "Z23") @@ (1093224 :> "Z24") @@
    (225326 :> "Z32") @@ (217575 :> "Z33") @@ (195328 :> "Z34") @@
    (254338 :> "Z35") @@ (2268701 :> "T")

\* iWeight = int(1e7*origWeight + 0.5), the weight counting units of 1e-8
Quantize(origWeight) == Trunc(origWeight + 5, 10)

\* the test of line 387: the fallback on a label that is neither 0 nor 'b'
IsInconsistent(detailLabel, Label) ==
    detailLabel = "W" /\ (Label # "0" /\ Label # "b")

\* getDetailLabel: [raised, value].  With num false, line 383 reads the name
\* detail_label_str, which nothing binds (the table of line 359 is named
\* detail_lable_str): NameError.
getDetailLabel(origWeight, Label, num) ==
    LET detailLabelDict == detail_label_num
        iWeight == Quantize(origWeight)
        detailLabel == IF iWeight \in DOMAIN detailLabelDict
                       THEN detailLabelDict[iWeight] ELSE "W"
    IN IF ~num THEN [raised |-> "NameError", value |-> "none"]
       ELSE IF IsInconsistent(detailLabel, Label)
       THEN [raised |-> "ValueError", value |-> "none"]
       ELSE [raised |-> "none", value |-> detailLabel]

\* add_detail_label: [raised, data].  The list of labels is built before the
\* column is assigned, so a raise (that of the first row that raises) leaves
\* data as it was.
add_detail_label(d, num) ==
    LET src == IF HasCol(d, "origWeight") THEN d["origWeight"] ELSE d["Weight"]
        n == NRows(d)
        lab(i) == getDetailLabel(src[i], d["Label"][i], num)
        bad == {i \in 1..n : lab(i).raised # "none"}
    IN IF bad # {}
       THEN [raised |-> lab(CHOOSE i \in bad : \A j \in bad : i <= j).raised,
             data |-> d]
       ELSE [raised |-> "none",
             data |-> SetCol(d, "detailLabel", [i \in 1..n |-> lab(i).value])]

\* line 423: data["origWeight"] = data["Weight"]
KeepOrigWeight(d) == SetCol(d, "origWeight", d["Weight"])

\* the where() condition forgotten: every row is scaled
WhereW_dropped(Weight, detailLabel, origWeight, systBkgNorm) ==
    Mul(Weight, systBkgNorm)

\* line 427, one row: (Weight*systBkgNorm).where(detailLabel == "W", other=origWeight)
WhereW(Weight, detailLabel, origWeight, systBkgNorm) ==
    IF detailLabel = "W" THEN Mul(Weight, systBkgNorm) ELSE origWeight

\* bkg_weight_norm: [raised, data], data being the DataFrame the caller sees
bkg_weight_norm(d, systBkgNorm) ==
    LET d1 == KeepOrigWeight(d)
        r == IF HasCol(d1, "detailLabel") THEN [raised |-> "none", data |-> d1]
             ELSE add_detail_label(d1, TRUE)
        d2 == r.data
    IN IF r.raised # "none" THEN r
       ELSE [raised |-> "none",
             data |-> SetCol(d2, "Weight",
                        [i \in 1..NRows(d2) |->
                            WhereW(d2["Weight"][i], d2["detailLabel"][i],
                                   d2["origWeight"][i], systBkgNorm)])]

-----------------------------------------------------------------------------
(* class V4: a record [px, py, pz, e], one element of a batch *)

\* V4(): the class defaults
V4zero == [px |-> 0, py |-> 0, pz |-> 0, e |-> 0]

V4_p2(v) == Add(Add(Sq(v.px), Sq(v.py)), Sq(v.pz))

V4_p(v) == Sqrt(V4_p2(v))

V4_pt2(v) == Add(Sq(v.px), Sq(v.py))

V4_pt(v) == Sqrt(V4_pt2(v))

V4_m(v) == Sqrt(Abs(Sub(Sq(v.e), V4_p2(v))))

V4_eta(v) == Asinh(Div(v.pz, V4_pt(v)))

V4_phi(v) == Atan2(v.py, v.px)

\* the shift by pi forgotten after the modulo: a result in [0, 2*pi)
WrapDelta_noshift(x) == IF ~Fin(x) THEN NaN ELSE (x + 3 * Pi) % (2 * Pi)

\* (x + 3*pi) % (2*pi) - pi of line 178
WrapDelta(x) == IF ~Fin(x) THEN NaN ELSE ((x + 3 * Pi) % (2 * Pi)) - Pi

V4_deltaPhi(v, w) == WrapDelta(Sub(V4_phi(v), V4_phi(w)))

V4_deltaEta(v, w) == Sub(V4_eta(v), V4_eta(w))

V4_deltaR(v, w) == Sqrt(Add(Sq(V4_deltaPhi(v, w)), Sq(V4_deltaEta(v, w))))

V4_eWithM(v, m) == Sqrt(Add(V4_p2(v), Sq(m)))

\* 1e-3, the tolerance of the constructor's test
ETol == Scale \div 1000

\* the test of line 149, one element: e + 1e-3 < p
EnergyTooSmall(v) == Lt(Add(v.e, ETol), V4_p(v))

V4_scale(v, f) ==
    [px |-> Mul(v.px, f), py |-> Mul(v.py, f), pz |-> Mul(v.pz, f), e |-> Abs(Mul(f, v.e))]

\* self.e = self.eWithM(m), the last line of scaleFixedM and setPtEtaPhiM
V4_setE(v, m) == [v EXCEPT !.e = V4_eWithM(v, m)]

\* px, py, pz *= factor of lines 206-208
V4_scaleMomentum(v, f) ==
    [px |-> Mul(v.px, f), py |-> Mul(v.py, f), pz |-> Mul(v.pz, f), e |-> v.e]

\* the mass read after the momentum was scaled
V4_scaleFixedM_late(v, f) ==
    V4_setE(V4_scaleMomentum(v, f), V4_m(V4_scaleMomentum(v, f)))

\* m is read before the momentum is scaled
V4_scaleFixedM(v, f) ==
    V4_setE([px |-> Mul(v.px, f), py |-> Mul(v.py, f), pz |-> Mul(v.pz, f), e |-> v.e],
            V4_m(v))

V4_setPtEtaPhiM(pt, eta, phi, m) ==
    V4_setE([px |-> Mul(pt, Cos(phi)), py |-> Mul(pt, Sin(phi)),
             pz |-> Mul(pt, Sinh(eta)), e |-> 0], m)

\* __iadd__, sum and __add__ (on a copy): componentwise
V4_add(v, w) ==
    [px |-> Add(v.px, w.px), py |-> Add(v.py, w.py),
     pz |-> Add(v.pz, w.pz), e |-> Add(v.e, w.e)]

-----------------------------------------------------------------------------
(* Centrality *)

\* A[A == np.inf] = 0
InfToZero(x) == IF x = Inf THEN 0 ELSE x

\* np.nan_to_num: nan to 0, +-inf to the largest finite floats
nan_to_num(x) == IF IsNaN(x) THEN 0
                 ELSE IF x = Inf THEN MaxF
                 ELSE IF x = NInf THEN 0 - MaxF
                 ELSE x

\* the terms A and B of lines 262-268
METphi_A(aPhi, bPhi, cPhi) ==
    nan_to_num(InfToZero(Div(Sin(Sub(cPhi, aPhi)), Sin(Sub(bPhi, aPhi)))))

METphi_B(aPhi, bPhi, cPhi) ==
    nan_to_num(InfToZero(Div(Sin(Sub(bPhi, cPhi)), Sin(Sub(bPhi, aPhi)))))

\* largest |A|, |B| whose squares, in units of 1/Scale^2, sum within 32 bits
HypotMax == 3 * Scale

\* np.sqrt(A**2 + B**2) of line 270.  For small A and B the squares are
\* summed in units of 1/Scale^2, where they are exact: a float square does
\* not round to 0 at these magnitudes.
Hypot(A, B) ==
    IF Fin(A) /\ Fin(B) /\ Abs(A) <= HypotMax /\ Abs(B) <= HypotMax
    THEN SqrtNearest(A * A + B * B, Isqrt(A * A + B * B))
    ELSE Sqrt(Add(Sq(A), Sq(B)))

\* line 270: (A+B)/np.sqrt(A**2 + B**2)
METphi_quotient(A, B) == Div(Add(A, B), Hypot(A, B))

\* lines 270-272: the quotient, inf to 0, nan_to_num
METphi_res(A, B) == nan_to_num(InfToZero(METphi_quotient(A, B)))

METphi_centrality(aPhi, bPhi, cPhi) ==
    METphi_res(METphi_A(aPhi, bPhi, cPhi), METphi_B(aPhi, bPhi, cPhi))

\* a * b where the float product of two nonzero numbers must not be written
\* as 0 (it is far from underflow): one unit when the product rounds to 0
MulNonzero(a, b) ==
    IF Fin(a) /\ Fin(b) /\ ~IsHuge(a) /\ ~IsHuge(b) /\ a # 0 /\ b # 0 /\ MulFin(a, b) = 0
    THEN Sign(a) * Sign(b)
    ELSE Mul(a, b)

\* line 284: center = (etaJ1 + etaJ2) / 2.
EtaCenter(etaJ1, etaJ2) == Div(Add(etaJ1, etaJ2), 2 * Scale)

\* the inf of a zero division kept (np.nan_to_num then writes the largest float)
EtaWidth_infkept(etaJ1, center) ==
    nan_to_num(Div(Scale, MulNonzero(Sub(etaJ1, center), Sub(etaJ1, center))))

\* lines 287-289: width = 1. / (etaJ1 - center)**2, inf to 0, nan_to_num
EtaWidth(etaJ1, center) ==
    nan_to_num(InfToZero(Div(Scale, MulNonzero(Sub(etaJ1, center), Sub(etaJ1, center)))))

\* line 291: np.exp(-width * (eta - center)**2)
EtaExp(eta, center, width) ==
    Exp(MulNonzero(Neg(width), MulNonzero(Sub(eta, center), Sub(eta, center))))

\* eta_centrality, one element of the arrays
eta_centrality(eta, etaJ1, etaJ2) ==
    EtaExp(eta, EtaCenter(etaJ1, etaJ2),
           EtaWidth(etaJ1, EtaCenter(etaJ1, etaJ2)))

-----------------------------------------------------------------------------
(* tau_energy_scale *)

\* the primary columns the pipeline reads, PRI_tau_pt first (line 460)
RequiredColumns ==
    {"PRI_tau_pt", "PRI_tau_eta", "PRI_tau_phi", "PRI_lep_pt", "PRI_lep_eta",
     "PRI_lep_phi", "PRI_met", "PRI_met_phi"}

DerivedColumns ==
    {"DER_mass_transverse_met_lep", "DER_mass_vis", "DER_pt_h",
     "DER_deltar_tau_lep", "DER_pt_ratio_lep_tau", "DER_met_phi_centrality"}

\* the columns rounded by lines 510-523
RoundedColumns == RequiredColumns \cup DerivedColumns

\* the tau mass of line 466, 0.8
TauMass == 8000

\* line 460: data["PRI_tau_pt"] *= systTauEnergyScale
ScaleTauPt(d, systTauEnergyScale) ==
    SetCol(d, "PRI_tau_pt",
           [i \in 1..NRows(d) |-> Mul(d["PRI_tau_pt"][i], systTauEnergyScale)])

\* the "1. -" forgotten: the whole tau vector is added to the missing energy
TesCorrection_whole(systTauEnergyScale) == Div(Scale, systTauEnergyScale)

\* (1. - systTauEnergyScale) / systTauEnergyScale of line 476, a division of
\* Python floats: the caller has excluded systTauEnergyScale = 0
TesCorrection(systTauEnergyScale) == Div(Scale - systTauEnergyScale, systTauEnergyScale)

\* lines 475-479: the missing-energy vector corrected for the tau's change
FixMet(vmet, vtau, systTauEnergyScale) ==
    LET vtauDeltaMinus == V4_scaleFixedM(vtau, TesCorrection(systTauEnergyScale))
    IN V4_setE([V4_add(vmet, vtauDeltaMinus) EXCEPT !.pz = 0], 0)

\* lines 480-502, one row: the values recomputed from the three vectors
\* (vmet already corrected) and the two angles PRI_lep_phi, PRI_tau_phi
Recomputed(vtau, vlep, vmet, lep_phi, tau_phi) ==
    [PRI_met |-> V4_pt(vmet),
     PRI_met_phi |-> V4_phi(vmet),
     DER_mass_transverse_met_lep |->
         V4_m(V4_add(V4_setPtEtaPhiM(V4_pt(vlep), 0, V4_phi(vlep), 0), vmet)),
     DER_mass_vis |-> V4_m(V4_add(vlep, vtau)),
     DER_pt_h |-> V4_pt(V4_add(V4_add(vlep, vtau), vmet)),
     DER_deltar_tau_lep |-> V4_deltaR(vtau, vlep),
     DER_pt_ratio_lep_tau |-> Div(V4_pt(vlep), V4_pt(vtau)),
     DER_met_phi_centrality |-> METphi_centrality(lep_phi, tau_phi, V4_phi(vmet))]

\* lines 465-502 for row i of d (PRI_tau_pt already scaled): the recomputed
\* values of the row, not yet rounded
TesRow(d, i, systTauEnergyScale) ==
    LET vtau == V4_setPtEtaPhiM(d["PRI_tau_pt"][i], d["PRI_tau_eta"][i],
                                d["PRI_tau_phi"][i], TauMass)
        vlep == V4_setPtEtaPhiM(d["PRI_lep_pt"][i], d["PRI_lep_eta"][i],
                                d["PRI_lep_phi"][i], 0)
        vmet == V4_setPtEtaPhiM(d["PRI_met"][i], 0, d["PRI_met_phi"][i], 0)
    IN Recomputed(vtau, vlep, FixMet(vmet, vtau, systTauEnergyScale),
                  d["PRI_lep_phi"][i], d["PRI_tau_phi"][i])

\* the columns TesRow recomputes
RecomputedColumns == {"PRI_met", "PRI_met_phi"} \cup DerivedColumns

\* lines 480-502: the recomputed columns written into the DataFrame
\* the columns of rows written into d
WriteRows(d, rows) ==
    [c \in (DOMAIN d) \cup RecomputedColumns |->
        IF c \in RecomputedColumns THEN [i \in DOMAIN rows |-> rows[i][c]] ELSE d[c]]

WriteRecomputed(d, systTauEnergyScale) ==
    WriteRows(d, [i \in 1..NRows(d) |-> TesRow(d, i, systTauEnergyScale)])

\* the whole frame rounded (data.round(3)) instead of the fourteen columns
RoundColumns_all(d) ==
    [c \in DOMAIN d |->
        IF c # "Label" THEN [i \in 1..NRows(d) |-> Round3(d[c][i])] ELSE d[c]]

\* lines 507-523: round(decimals=3) of the fourteen columns
RoundColumns(d) ==
    [c \in DOMAIN d |->
        IF c \in RoundedColumns THEN [i \in 1..NRows(d) |-> Round3(d[c][i])] ELSE d[c]]

\* tau_energy_scale: [raised, data], data being the DataFrame the caller sees.
\* systTauEnergyScale is a Python float (argparse type=float, line 561).
tau_energy_scale(d, systTauEnergyScale) ==
    IF ~HasCol(d, "PRI_tau_pt") THEN [raised |-> "KeyError", data |-> d]
    ELSE LET d1 == ScaleTauPt(d, systTauEnergyScale)
         IN IF ~(RequiredColumns \subseteq DOMAIN d1)
            THEN [raised |-> "KeyError", data |-> d1]
            ELSE IF systTauEnergyScale = 0
            THEN [raised |-> "ZeroDivisionError", data |-> d1]
            ELSE [raised |-> "none",
                  data |-> RoundColumns(WriteRecomputed(d1, systTauEnergyScale))]

-----------------------------------------------------------------------------
(* Bounds and inputs *)

\* rows of a DataFrame
MaxRows == 2

\* bkg_weight_norm calls on one DataFrame
MaxCalls == 2

\* elements of a V4 batch
MaxLen == 2

\* DataFrames of 1..MaxRows rows drawn from the events evs, with columns cols
Frames(evs, cols) ==
    { [c \in cols |-> [i \in DOMAIN rows |-> rows[i][c]]] :
        rows \in UNION { [1..k -> evs] : k \in 1..MaxRows } }

\* all sequences over S of length 0..n
SeqsUpTo(S, n) == UNION { [1..k -> S] : k \in 0..n }

\* call is <<name of the function, [args, raised, value]>>
NoCall == <<"none", [args |-> <<>>, raised |-> "none", value |-> 0]>>

CallOp == call[1]
CallArgs == call[2].args
CallRaised == call[2].raised
CallValue == call[2].value

NoFrame == [c \in {} |-> <<>>]

-----------------------------------------------------------------------------
(* The background-weight pipeline applied, repeatedly, to a loaded DataFrame *)

\* (Weight in units of 1e-8, Label): weights of the table (57207, 4613 after
\* rounding, 917703), weights outside it on background and on signal labels
BkgEvents ==
    { [Weight |-> 572070, Label |-> "1"],
      [Weight |-> 46128, Label |-> "s"],
      [Weight |-> 9177030, Label |-> "0"],
      [Weight |-> 12345, Label |-> "0"],
      [Weight |-> 200000, Label |-> "b"],
      [Weight |-> 50000, Label |-> "1"] }

\* systBkgNorm: 0, 0.5, 1, 2
BkgFactors == {0, 5000, 10000, 20000}

InitBkg ==
    /\ data \in Frames(BkgEvents, {"Weight", "Label"})
    /\ pre = data
    /\ data0 = data
    /\ raised = "none"
    /\ calls = 0
    /\ factor = 0
    /\ call = NoCall

\* a call bkg_weight_norm(data, systBkgNorm) by the driver
BkgWeightNorm(systBkgNorm) ==
    /\ raised = "none"
    /\ calls < MaxCalls
    /\ LET r == bkg_weight_norm(data, systBkgNorm)
       IN /\ data' = r.data
          /\ raised' = r.raised
    /\ pre' = data
    /\ calls' = calls + 1
    /\ factor' = systBkgNorm
    /\ UNCHANGED <<data0, call>>

NextBkg == \E f \in BkgFactors : BkgWeightNorm(f)

SpecBkg == InitBkg /\ [][NextBkg]_vars

-----------------------------------------------------------------------------
(* The energy-scale pipeline applied, once, to a loaded DataFrame (the     *)
(* driver of lines 649-653 calls it once per DataFrame)                    *)

Ev(tau_pt, tau_eta, tau_phi, lep_pt, lep_eta, lep_phi, met, met_phi, w, l) ==
    [PRI_tau_pt |-> tau_pt, PRI_tau_eta |-> tau_eta, PRI_tau_phi |-> tau_phi,
     PRI_lep_pt |-> lep_pt, PRI_lep_eta |-> lep_eta, PRI_lep_phi |-> lep_phi,
     PRI_met |-> met, PRI_met_phi |-> met_phi, Weight |-> w, Label |-> l]

\* events in units of 1e-4: values with a fourth decimal, a lepton
\* collinear with the tau, no missing energy, an angle printed as 3.142
TesEvents ==
    { Ev(12345, 5432, 10000, 8000, 0 - 3000, 0 - 20000, 6000, 25000, 12345, "0"),
      Ev(10000, 0, 5000, 5000, 5000, 5000, 5000, 0 - 10000, 572070, "1"),
      Ev(7000, 0 - 10000, 0 - 25000, 10000, 2000, 3000, 0, 15000, 9177030, "b"),
      Ev(9000, 1000, 30000, 6000, 10000, 0 - 30000, 8000, 31420, 46128, "s") }

\* systTauEnergyScale: -1, 0, 0.9, 1, 1.1, 2
TesFactors == {0 - 10000, 0, 9000, 10000, 11000, 20000}

TesColumns == RequiredColumns \cup {"Weight", "Label"}

\* the DataFrame d without column c
DropCol(d, c) == [x \in (DOMAIN d) \ {c} |-> d[x]]

InitTes ==
    /\ \E full \in Frames(TesEvents, TesColumns) :
          \E missing \in RequiredColumns \cup {"none"} : data = DropCol(full, missing)
    /\ pre = data
    /\ data0 = data
    /\ raised = "none"
    /\ calls = 0
    /\ factor = 0
    /\ call = NoCall

\* the call tau_energy_scale(data, systTauEnergyScale) by the driver
TauEnergyScale(systTauEnergyScale) ==
    /\ calls = 0
    /\ LET r == tau_energy_scale(data, systTauEnergyScale)
       IN /\ data' = r.data
          /\ raised' = r.raised
    /\ pre' = data
    /\ calls' = calls + 1
    /\ factor' = systTauEnergyScale
    /\ UNCHANGED <<data0, call>>

NextTes == \E f \in TesFactors : TauEnergyScale(f)

SpecTes == InitTes /\ [][NextTes]_vars

-----------------------------------------------------------------------------
(* The pure functions, each called once on arguments drawn from bounded    *)
(* sets (a call does not depend on the calls before it)                    *)

\* bool(a) of a numpy array of booleans, as the if of line 149 takes it: the
\* set of outcomes.  One element: that element.  Two or more: ValueError
\* ("The truth value of an array with more than one element is ambiguous").
\* None: False with a DeprecationWarning, or ValueError, by numpy version.
TruthValue(a) ==
    IF Len(a) = 1 THEN {IF a[1] THEN "True" ELSE "False"}
    ELSE IF Len(a) = 0 THEN {"False", "ValueError"}
    ELSE {"ValueError"}

\* V4.__init__ on four floats: [raised, value]
V4_init(apx, apy, apz, ae) ==
    LET v == [px |-> apx, py |-> apy, pz |-> apz, e |-> ae]
    IN IF EnergyTooSmall(v) THEN [raised |-> "ValueError", value |-> v]
       ELSE [raised |-> "none", value |-> v]

\* V4.__init__ on four aligned arrays (vs: the sequence of elements), the
\* truth value of the test being t: [raised, value]
V4_init_batch(vs, t) ==
    IF t = "False" THEN [raised |-> "none", value |-> vs]
    ELSE [raised |-> "ValueError", value |-> vs]

\* weights in units of 1e-8 around the keys of the table and around two
\* numbers that are not keys
LabelWeights ==
    { 10 * k + d : k \in (DOMAIN detail_label_num) \cup {1234, 5000}, d \in {0 - 5, 0, 4, 5} }

Labels == {"0", "1", "b", "s"}

\* components of the constructor's arguments: e within and beyond 1e-3 below p
V4Momenta == {0, 10000, 0 - 20000}

V4Energies == {9989, 9990, 10000, 30000}

V4Elements ==
    { [px |-> x, py |-> 0, pz |-> z, e |-> en] :
        x \in V4Momenta, z \in {0, 10000}, en \in V4Energies }

\* transverse components of the vectors deltaPhi is called on: along the
\* axes, the diagonals, and either side of the branch cut (phi = +-3.0)
PhiComponents == {0 - 10000, 0 - 9900, 0 - 1411, 0, 1411, 10000}

InitFn ==
    /\ data = NoFrame
    /\ pre = NoFrame
    /\ data0 = NoFrame
    /\ raised = "none"
    /\ calls = 0
    /\ factor = 0
    /\ call = NoCall

CallGetDetailLabel ==
    \E origWeight \in LabelWeights, Label \in Labels, num \in BOOLEAN :
        /\ CallOp = "none"
        /\ LET r == getDetailLabel(origWeight, Label, num)
           IN call' = <<"getDetailLabel", [args |-> <<origWeight, Label, num>>,
                       raised |-> r.raised, value |-> r.value]>>
        /\ UNCHANGED <<data, pre, data0, raised, calls, factor>>

CallV4 ==
    \E v \in V4Elements :
        /\ CallOp = "none"
        /\ LET r == V4_init(v.px, v.py, v.pz, v.e)
           IN call' = <<"V4", [args |-> <<v>>,
                       raised |-> r.raised, value |-> r.value]>>
        /\ UNCHANGED <<data, pre, data0, raised, calls, factor>>

CallV4Batch ==
    \E vs \in SeqsUpTo(V4Elements, MaxLen) :
        \E t \in TruthValue([i \in 1..Len(vs) |-> EnergyTooSmall(vs[i])]) :
            /\ CallOp = "none"
            /\ LET r == V4_init_batch(vs, t)
               IN call' = <<"V4batch", [args |-> vs,
                           raised |-> r.raised, value |-> r.value]>>
            /\ UNCHANGED <<data, pre, data0, raised, calls, factor>>

CallDeltaPhi ==
    \E x1, y1, x2, y2 \in PhiComponents :
        /\ CallOp = "none"
        /\ LET v == [px |-> x1, py |-> y1, pz |-> 0, e |-> 0]
               w == [px |-> x2, py |-> y2, pz |-> 0, e |-> 0]
           IN call' = <<"deltaPhi", [args |-> <<v, w>>,
                       raised |-> "none", value |-> V4_deltaPhi(v, w)]>>
        /\ UNCHANGED <<data, pre, data0, raised, calls, factor>>

\* reference pseudorapidities: equal, 0.02 apart, units apart
EtaRefs == {0 - 20000, 0, 200, 20000}

\* eta at, next to (0.01 away) and far from the centers
EtaValues == {0 - 20000, 0, 100, 5000, 10000, 20000}

CallEtaCentrality ==
    \E eta \in EtaValues, etaJ1, etaJ2 \in EtaRefs :
        /\ CallOp = "none"
        /\ call' = <<"eta_centrality", [args |-> <<eta, etaJ1, etaJ2>>,
                     raised |-> "none", value |-> eta_centrality(eta, etaJ1, etaJ2)]>>
        /\ UNCHANGED <<data, pre, data0, raised, calls, factor>>

\* angles whose differences are 0 or away from the multiples of pi
PhiValues == {0 - 20000, 0 - 5000, 0, 10000, 25000}

\* the value records the terms A and B as they enter line 270, and the result
CallMETphiCentrality ==
    \E aPhi, bPhi, cPhi \in PhiValues :
        /\ CallOp = "none"
        /\ call' = <<"METphi_centrality", [args |-> <<aPhi, bPhi, cPhi>>,
                     raised |-> "none",
                     value |-> [A |-> METphi_A(aPhi, bPhi, cPhi),
                                B |-> METphi_B(aPhi, bPhi, cPhi),
                                res |-> METphi_centrality(aPhi, bPhi, cPhi)]]>>
        /\ UNCHANGED <<data, pre, data0, raised, calls, factor>>

\* vectors with energy and momentum small enough for the squares after a
\* scaling by 10 to stay where Sqrt keeps the full precision: massless,
\* massive, and with the energy below the momentum within the tolerance
FixedMVectors ==
    { [px |-> x, py |-> 0, pz |-> z, e |-> en] :
        x \in {0, 3000, 0 - 3000}, z \in {0, 2000},
        en \in {2000, 2995, 3000, 3600, 10000, 25000} }

\* factors of (0, 10]
FixedMFactors == {1000, 5000, 10000, 25000, 100000}

\* scaleFixedM on a vector the constructor accepted
CallScaleFixedM ==
    \E v \in FixedMVectors, f \in FixedMFactors :
        /\ CallOp = "none"
        /\ ~EnergyTooSmall(v)
        /\ call' = <<"scaleFixedM", [args |-> <<v, f>>, raised |-> "none",
                     value |-> V4_scaleFixedM(v, f)]>>
        /\ UNCHANGED <<data, pre, data0, raised, calls, factor>>

NextFn ==
    \/ CallGetDetailLabel
    \/ CallV4
    \/ CallV4Batch
    \/ CallDeltaPhi
    \/ CallEtaCentrality
    \/ CallMETphiCentrality
    \/ CallScaleFixedM

SpecFn == InitFn /\ [][NextFn]_vars

-----------------------------------------------------------------------------
(* Properties of the background-weight pipeline (SpecBkg) *)

\* C1: after two or more bkg_weight_norm calls, origWeight still holds the
\* weights as they were before the first call, and every row labelled "W"
\* has Weight = (that original weight) * (the last factor).
C1_OrigWeightPreserved ==
    (calls >= 2 /\ raised = "none") =>
        /\ data["origWeight"] = data0["Weight"]
        /\ \A i \in 1..NRows(data) :
              data["detailLabel"][i] = "W" =>
                  data["Weight"][i] = Mul(data0["Weight"][i], factor)

\* C2: when bkg_weight_norm aborts with the classification-inconsistency
\* ValueError, the DataFrame the caller holds is the one it passed in: no
\* column was added or changed.
C2_AbortLeavesDataUntouched ==
    raised = "ValueError" => data = pre

\* C4: after any number of successful bkg_weight_norm calls, every row whose
\* detail label is not "W" has exactly the weight it had before the first call.
C4_NonFallbackWeightKept ==
    (calls >= 1 /\ raised = "none") =>
        \A i \in 1..NRows(data) :
            data["detailLabel"][i] # "W" => data["Weight"][i] = data0["Weight"][i]

\* two successful calls on a DataFrame holding a signal row of the table and a
\* fallback row whose weight the calls changed
C4_Witness ==
    /\ calls >= 2
    /\ raised = "none"
    /\ factor # Scale
    /\ \E i, j \in 1..NRows(data) :
          /\ data["detailLabel"][i] # "W"
          /\ data["Label"][i] \in {"1", "s"}
          /\ data["detailLabel"][j] = "W"
          /\ data["Weight"][j] # data0["Weight"][j]

-----------------------------------------------------------------------------
(* Properties of the energy-scale pipeline (SpecTes) *)

\* the primary columns the pipeline reads and does not recompute
UntouchedPrimary ==
    {"PRI_tau_eta", "PRI_tau_phi", "PRI_lep_pt", "PRI_lep_eta", "PRI_lep_phi"}

\* C3: when tau_energy_scale is called on a DataFrame lacking a required
\* primary column, the call fails before any mutation: every column present
\* before the call holds the same values after it.
C3_MissingColumnNoMutation ==
    (calls = 1 /\ ~(RequiredColumns \subseteq DOMAIN pre)) =>
        /\ raised = "KeyError"
        /\ \A c \in DOMAIN pre : c \in DOMAIN data /\ data[c] = pre[c]

\* C6, as stated: after a successful call the six derived columns are
\* present and PRI_tau_eta, PRI_tau_phi, PRI_lep_pt, PRI_lep_eta,
\* PRI_lep_phi, Weight and Label hold exactly their pre-call values.
C6_OtherColumnsExact ==
    (calls = 1 /\ raised = "none") =>
        /\ DerivedColumns \subseteq DOMAIN data
        /\ \A c \in UntouchedPrimary \cup {"Weight", "Label"} : data[c] = pre[c]

\* C6, amended: after a successful call the six derived columns are present,
\* Weight and Label hold exactly their pre-call values, and PRI_tau_eta,
\* PRI_tau_phi, PRI_lep_pt, PRI_lep_eta, PRI_lep_phi hold their pre-call
\* values rounded to 3 decimals.
C6_OtherColumnsRounded ==
    (calls = 1 /\ raised = "none") =>
        /\ DerivedColumns \subseteq DOMAIN data
        /\ \A c \in {"Weight", "Label"} : data[c] = pre[c]
        /\ \A c \in UntouchedPrimary : \A i \in 1..NRows(pre) :
              data[c][i] = Round3(pre[c][i])

\* a successful call with a factor other than 1 on a row whose pseudorapidity
\* has a fourth decimal, which the call rounded away
C6_Witness ==
    /\ calls = 1
    /\ raised = "none"
    /\ factor # Scale
    /\ DerivedColumns \subseteq DOMAIN data
    /\ \E i \in 1..NRows(pre) :
          /\ pre["PRI_tau_eta"][i] % 10 # 0
          /\ data["PRI_tau_eta"][i] # pre["PRI_tau_eta"][i]

\* C7: no bounds are enforced on the factor: for every factor, 0 and
\* negative values included, a call on a DataFrame holding every required
\* column completes without raising and writes all recomputed columns.
C7_EveryFactorCompletes ==
    (calls = 1 /\ RequiredColumns \subseteq DOMAIN pre) =>
        /\ raised = "none"
        /\ RecomputedColumns \subseteq DOMAIN data

\* the 3-decimal rounding tolerance, 1e-3
RoundTol == Scale \div 1000

Near(a, b) == Fin(a) /\ Fin(b) /\ Abs(a - b) <= RoundTol

-----------------------------------------------------------------------------
(* Properties of the pure functions (SpecFn) *)

\* C5: getDetailLabel is decided by (quantized weight, label): a quantized
\* weight in the table returns the table's code; one absent from the table
\* returns "W" without error when the label is background (0 or 'b') and
\* raises the integrity error when the label is anything else.
C5_DetailLabelCases ==
    CallOp = "getDetailLabel" =>
        LET key == RoundDiv(CallArgs[1], 10)
            Label == CallArgs[2]
            table == IF CallArgs[3] THEN detail_label_num ELSE detail_lable_str
        IN IF key \in DOMAIN table
           THEN CallRaised = "none" /\ CallValue = table[key]
           ELSE IF Label \in {"0", "b"}
           THEN CallRaised = "none" /\ CallValue = "W"
           ELSE CallRaised = "ValueError"

\* C9: constructing a V4 from four components, in single-vector form and in
\* batch form, raises exactly when some element has e + 1e-3 < p; otherwise
\* the vector is constructed with the given components.
C9_RaisesIffSomeElementTooSmall ==
    /\ CallOp = "V4" =>
          /\ CallRaised = "ValueError" <=> EnergyTooSmall(CallArgs[1])
          /\ CallValue = CallArgs[1]
    /\ CallOp = "V4batch" =>
          /\ CallRaised = "ValueError" <=>
                \E i \in 1..Len(CallArgs) : EnergyTooSmall(CallArgs[i])
          /\ CallValue = CallArgs

\* C10, as stated: deltaPhi lies in (-pi, pi].
C10_DeltaPhiOpenBelow ==
    CallOp = "deltaPhi" => (CallValue > 0 - Pi /\ CallValue <= Pi)

\* C10, amended: deltaPhi lies in [-pi, pi): it equals -pi when the two
\* angles differ by exactly pi, and is never pi or more.
C10_DeltaPhiOpenAbove ==
    CallOp = "deltaPhi" => (CallValue >= 0 - Pi /\ CallValue < Pi)

\* two vectors whose azimuthal angles differ by exactly pi
C10_Witness ==
    /\ CallOp = "deltaPhi"
    /\ V4_phi(CallArgs[1]) - V4_phi(CallArgs[2]) = Pi
    /\ CallValue = 0 - Pi

C12_NonFiniteToZero ==
    CallOp = "METphi_centrality" =>
        /\ Sin(Sub(CallArgs[2], CallArgs[1])) = 0 =>
              CallValue.A = 0 /\ CallValue.B = 0
        /\ Fin(CallValue.res)
        /\ ~Fin(METphi_quotient(CallValue.A, CallValue.B)) => CallValue.res = 0

\* |e^2 - (px^2 + py^2 + pz^2)|
MassSquared(v) == Abs(Sub(Sq(v.e), V4_p2(v)))

\* the rounding of the mass and of the energy to 1/Scale, carried into the
\* squares: 1e-3
MassTol == Scale \div 1000

\* C13: for every valid V4 and every factor in (0, 10], scaleFixedM
\* multiplies px, py, pz by the factor and leaves |e^2 - p^2| unchanged (up
\* to rounding), also for a vector whose energy is below its momentum within
\* the tolerance of the constructor.
C13_ScaleFixedMKeepsMass ==
    CallOp = "scaleFixedM" =>
        /\ CallValue.px = Mul(CallArgs[1].px, CallArgs[2])
        /\ CallValue.py = Mul(CallArgs[1].py, CallArgs[2])
        /\ CallValue.pz = Mul(CallArgs[1].pz, CallArgs[2])
        /\ Abs(MassSquared(CallValue) - MassSquared(CallArgs[1])) <= MassTol

\* an energy below the momentum, a factor other than 1, and a mass that is
\* not 0
C13_Witness ==
    /\ CallOp = "scaleFixedM"
    /\ Lt(CallArgs[1].e, V4_p(CallArgs[1]))
    /\ CallArgs[2] # Scale
    /\ MassSquared(CallArgs[1]) > 0
    /\ CallValue.px # CallArgs[1].px
    /\ CallValue.e > V4_p(CallValue)

====
